---- MODULE Spec2Model ----
(***************************************************************************)
(* Huffman compression (assignments/a2/starter/huffman.py) and the Tour of  *)
(* Anne Hoy (assignments/a1/toah_model.py, tour.py).                       *)
(*                                                                         *)
(* Python values are modelled as follows.                                  *)
(*   bytes / list of int   a sequence of integers 0..255                   *)
(*   str of bits           a sequence of the one-character strings         *)
(*                         "0", "1" (and " ", which get_path can return)   *)
(*   dict                  a function (insertion order is never read)      *)
(*   HuffmanNode           a record [symbol, left, right, number]          *)
(*   ReadNode              a record [l_type, l_data, r_type, r_data]       *)
(*   None                  the record None (NoSymbol / NoNumber for the    *)
(*                         integer-valued fields symbol and number)        *)
(*   TOAHModel             a record [number_of_stools, stools, move_seq];  *)
(*                         a method that changes self returns the changed  *)
(*                         model                                           *)
(*   Cheese                a record [size]                                 *)
(*   a raised exception    the record Raise(kind); a function that can     *)
(*                         raise and returns bytes or a list returns       *)
(*                         Ok(value) when it does not raise                *)
(***************************************************************************)
EXTENDS Integers, Sequences, FiniteSets, TLC

VARIABLES
    pc,          \* the step the run is at
    text,        \* the bytes to compress (the symbol sequence to pack)
    freqs,   \* the frequency dictionary given to huffman_tree
    tree,        \* the Huffman tree
    data,        \* bytes produced: the compressed file, the tree's bytes, the packed bits
    nodes,    \* the list of ReadNodes
    rootix,  \* the index given to generate_tree_general / generate_tree_postorder
    size,        \* the number of symbols generate_uncompressed is asked for
    result,      \* what the last decoding step returned, or the exception it raised
    toah,        \* the TOAHModel of the game (None while there is none)
    stack        \* the calls of move_four / move_three that have not returned

vars == <<pc, text, freqs, tree, data, nodes, rootix, size, result, toah, stack>>

(***************************************************************************)
(* Bounds of the model.                                                    *)
(***************************************************************************)
\* largest count a symbol has in an enumerated frequency dictionary
MaxFreq == 3
\* longest file content given to compress
MaxText == 5
\* longest symbol sequence given to generate_compressed on its own
MaxSeq == 3
\* longest list of ReadNodes given to the tree generators on its own
MaxNodes == 2

\* the byte values that occur as symbols
Alphabet == {0, 1, 2, 255}
\* the symbols of the larger trees that are written and read back
WideAlphabet == Alphabet \cup {3}

\* most cheeses a game has on its stools
MaxCheeses == 2
\* most moves a game records
MaxMoves == 2
\* the numbers of stools a game is created with
StoolCounts == {1, 2, 3}
\* most cheeses a tour starts with
MaxTour == 5
\* the number of stools of the tour
FourStools == 4

(***************************************************************************)
(* Python runtime values.                                                  *)
(***************************************************************************)
None == [none |-> TRUE]

Raise(kind) == [error |-> kind]

Errors == {Raise("IndexError"), Raise("RecursionError"), Raise("ValueError"),
           Raise("KeyError"), Raise("ZeroDivisionError"),
           Raise("OverflowError"), Raise("IllegalMoveError")}

IsError(v) == v \in Errors

Ok(v) == [value |-> v]

(***************************************************************************)
(* nodes.HuffmanNode and nodes.ReadNode.                                   *)
(***************************************************************************)
NoSymbol == -1

NoNumber == -1

HuffmanNode(symbol, left, right) ==
    [symbol |-> symbol, left |-> left, right |-> right, number |-> NoNumber]

is_leaf(t) == t.left = None /\ t.right = None

ReadNode(l_type, l_data, r_type, r_data) ==
    [l_type |-> l_type, l_data |-> l_data, r_type |-> r_type, r_data |-> r_data]

\* HuffmanNode.__lt__: one node is never less than another
NodeLess(a, b) == FALSE

\* HuffmanNode.__eq__: symbol, left and right agree (number is not compared)
RECURSIVE NodeEq(_, _)
NodeEq(a, b) ==
    IF a = None \/ b = None THEN a = b
    ELSE /\ a.symbol = b.symbol
         /\ NodeEq(a.left, b.left)
         /\ NodeEq(a.right, b.right)

(***************************************************************************)
(* Helper functions for manipulating bytes.                                *)
(***************************************************************************)
RECURSIVE Pow2(_)
Pow2(n) == IF n = 0 THEN 1 ELSE 2 * Pow2(n - 1)

\* (byte & (1 << bit_num)) >> bit_num
get_bit(byte, bit_num) == (byte \div Pow2(bit_num)) % 2

BitChar(b) == IF b = 1 THEN "1" ELSE "0"

byte_to_bits(byte) == [k \in 1..8 |-> BitChar(get_bit(byte, 8 - k))]

RECURSIVE SumSeq(_)
SumSeq(s) == IF s = <<>> THEN 0 ELSE s[1] + SumSeq(Tail(s))

\* int(bits[pos]) << (7 - pos), summed, for bits made of "0" and "1"
\* (int(" ") raises ValueError: see generate_compressed)
bits_to_byte(bits) ==
    SumSeq([pos \in 1..Len(bits) |->
               (IF bits[pos] = "1" THEN 1 ELSE 0) * Pow2(8 - pos)])

(***************************************************************************)
(* Functions for compression.                                              *)
(***************************************************************************)
Range(s) == {s[i] : i \in 1..Len(s)}

make_freq_dict(txt) ==
    [cha \in Range(txt) |-> Cardinality({i \in 1..Len(txt) : txt[i] = cha})]

\* comparison of the tuples (freq, symbol), both integers
TupleLess(a, b) == a[1] < b[1] \/ (a[1] = b[1] /\ a[2] < b[2])

\* sort_lst.sort() on the distinct tuples (freq, symbol)
RECURSIVE SortTuples(_)
SortTuples(S) ==
    IF S = {} THEN <<>>
    ELSE LET m == CHOOSE x \in S : \A y \in S : x = y \/ TupleLess(x, y)
         IN  <<m>> \o SortTuples(S \ {m})

\* comparison of the tuples (freq, HuffmanNode)
PairLess(a, b) ==
    IF a[1] # b[1] THEN a[1] < b[1]
    ELSE IF ~NodeEq(a[2], b[2]) THEN NodeLess(a[2], b[2])
    ELSE FALSE

\* x placed after every element it is not less than (a stable insertion)
InsertPair(s, x) ==
    LET p == Cardinality({i \in 1..Len(s) : ~PairLess(x, s[i])})
    IN  SubSeq(s, 1, p) \o <<x>> \o SubSeq(s, p + 1, Len(s))

\* node_list.sort() left out: the merged node stays at the end of the list
SortPairs_Skipped(s) == s

\* node_list.sort(): Python's sort is stable
RECURSIVE SortPairs(_)
SortPairs(s) ==
    IF s = <<>> THEN <<>>
    ELSE InsertPair(SortPairs(SubSeq(s, 1, Len(s) - 1)), s[Len(s)])

\* the while loop of huffman_tree
RECURSIVE MergeLoop(_)
MergeLoop(node_list) ==
    IF Len(node_list) > 1
    THEN LET m1 == node_list[1]
             m2 == node_list[2]
             new_node == HuffmanNode(NoSymbol, m1[2], m2[2])
         IN  MergeLoop(SortPairs(Append(SubSeq(node_list, 3, Len(node_list)),
                                        <<m1[1] + m2[1], new_node>>)))
    ELSE node_list

\* huffman_tree without the case of a single symbol: the lone leaf is the tree
huffman_tree_NoWrap(freq_dict) ==
    LET sort_lst == SortTuples({<<freq_dict[s], s>> : s \in DOMAIN freq_dict})
        node_list == [i \in 1..Len(sort_lst) |->
                        <<sort_lst[i][1], HuffmanNode(sort_lst[i][2], None, None)>>]
        final == MergeLoop(node_list)
    IN  IF Len(final) = 0 THEN Raise("IndexError") ELSE final[1][2]

huffman_tree(freq_dict) ==
    LET sort_lst == SortTuples({<<freq_dict[s], s>> : s \in DOMAIN freq_dict})
        node_list == [i \in 1..Len(sort_lst) |->
                        <<sort_lst[i][1], HuffmanNode(sort_lst[i][2], None, None)>>]
    IN  IF Len(node_list) = 1
        THEN HuffmanNode(NoSymbol, node_list[1][2], None)
        ELSE LET final == MergeLoop(node_list)
             IN  IF Len(final) = 0 THEN Raise("IndexError") ELSE final[1][2]

RECURSIVE contains(_, _)
contains(node, value) ==
    IF node = None THEN FALSE
    ELSE \/ node.symbol = value
         \/ contains(node.left, value)
         \/ contains(node.right, value)

RECURSIVE get_path(_, _)
\* get_path with "0" written for the right edge as well
get_path_SameBit(t, n) ==
    IF t = None THEN <<" ">>
    ELSE IF t.symbol = n THEN <<>>
    ELSE IF contains(t.left, n) THEN <<"0">> \o get_path(t.left, n)
    ELSE <<"0">> \o get_path(t.right, n)

get_path(t, n) ==
    IF t = None THEN <<" ">>
    ELSE IF t.symbol = n THEN <<>>
    ELSE IF contains(t.left, n) THEN <<"0">> \o get_path(t.left, n)
    ELSE <<"1">> \o get_path(t.right, n)

RECURSIVE get_leaf(_)
get_leaf(t) ==
    IF t = None THEN <<>>
    ELSE IF is_leaf(t) THEN <<t.symbol>>
    ELSE (IF t.right # None THEN get_leaf(t.right) ELSE <<>>)
         \o (IF t.left # None THEN get_leaf(t.left) ELSE <<>>)

get_codes(t) == [a \in Range(get_leaf(t)) |-> get_path(t, a)]

\* number_internal sets tree.number in place; here the numbered tree is
\* returned beside the count
RECURSIVE number_internal(_, _)
number_internal(t, n) ==
    IF t # None /\ ~is_leaf(t)
    THEN LET l == number_internal(t.left, n)
             r == number_internal(t.right, l.n)
         IN  [tree |-> [t EXCEPT !.left = l.tree, !.right = r.tree,
                                 !.number = r.n],
              n |-> r.n + 1]
    ELSE [tree |-> t, n |-> n]

number_nodes(t) == number_internal(t, 0).tree

\* the sum of f[x] over the x in S
RECURSIVE SumOver(_, _)
SumOver(S, f) ==
    IF S = {} THEN 0
    ELSE LET x == CHOOSE y \in S : TRUE IN f[x] + SumOver(S \ {x}, f)

\* sum(lst) / i, kept as the exact fraction total / count
avg_length(t, freq_dict) ==
    LET cod_dic == get_codes(t)
    IN  IF \E key \in DOMAIN cod_dic : key \notin DOMAIN freq_dict
        THEN Raise("KeyError")
        ELSE LET lst == [key \in DOMAIN cod_dic |->
                            Len(cod_dic[key]) * freq_dict[key]]
                 i == SumOver(DOMAIN cod_dic, freq_dict)
             IN  IF i = 0 THEN Raise("ZeroDivisionError")
                 ELSE [total |-> SumOver(DOMAIN cod_dic, lst), count |-> i]

RECURSIVE ConcatCodes(_, _)
ConcatCodes(txt, codes) ==
    IF txt = <<>> THEN <<>>
    ELSE codes[txt[1]] \o ConcatCodes(Tail(txt), codes)

generate_compressed(txt, codes) ==
    IF \E i \in 1..Len(txt) : txt[i] \notin DOMAIN codes
    THEN Raise("KeyError")
    ELSE LET r0 == ConcatCodes(txt, codes)
             reman == Len(r0) % 8
             r == r0 \o [k \in 1..(8 - reman) |-> "0"]
             num == Len(r) \div 8
             l == [i \in 1..num |-> bits_to_byte(SubSeq(r, 8 * (i - 1) + 1, 8 * i))]
         IN  IF \E k \in 1..Len(r) : r[k] \notin {"0", "1"}
             THEN Raise("ValueError")
             ELSE Ok(l)

RECURSIVE tree_to_bytes(_)
tree_to_bytes(t) ==
    IF t # None
    THEN LET left == IF t.left # None THEN tree_to_bytes(t.left) ELSE <<>>
             right == IF t.right # None THEN tree_to_bytes(t.right) ELSE <<>>
             lst1 == IF t.left # None
                     THEN IF is_leaf(t.left) THEN <<0, t.left.symbol>>
                          ELSE <<1, t.left.number>>
                     ELSE <<>>
             lst2 == IF t.right # None
                     THEN IF is_leaf(t.right) THEN <<0, t.right.symbol>>
                          ELSE <<1, t.right.number>>
                     ELSE <<>>
         IN  left \o right \o lst1 \o lst2
    ELSE None

num_nodes_to_bytes(t) == <<t.number + 1>>

\* size.to_bytes(4, "little")
size_to_bytes(n) ==
    IF n \div Pow2(16) >= Pow2(16) THEN Raise("OverflowError")
    ELSE Ok([k \in 1..4 |-> (n \div Pow2(8 * (k - 1))) % 256])

\* the bytes compress writes to out_file, or the exception it ends in
compress(txt) ==
    LET freq == make_freq_dict(txt)
        tree0 == huffman_tree(freq)
    IN  IF IsError(tree0) THEN tree0
        ELSE LET codes == get_codes(tree0)
                 numbered == number_nodes(tree0)
                 bits_per_symbol == avg_length(numbered, freq)
                 size_bytes == size_to_bytes(Len(txt))
                 packed == generate_compressed(txt, codes)
             IN  IF IsError(bits_per_symbol) THEN bits_per_symbol
                 ELSE IF IsError(size_bytes) THEN size_bytes
                 ELSE IF IsError(packed) THEN packed
                 ELSE Ok(num_nodes_to_bytes(numbered) \o tree_to_bytes(numbered)
                         \o size_bytes.value \o packed.value)

(***************************************************************************)
(* Functions for decompression.                                            *)
(***************************************************************************)
\* lst[i] in Python: a negative i counts from the end
Index(lst, i) ==
    IF 0 <= i /\ i < Len(lst) THEN lst[i + 1]
    ELSE IF 0 - Len(lst) <= i /\ i < 0 THEN lst[Len(lst) + i + 1]
    ELSE Raise("IndexError")

\* depth counts the calls on the stack: a chain of more than Len(node_lst) + 1
\* calls visits some record twice and so never ends (RecursionError)
RECURSIVE general_rec(_, _, _)
general_rec(node_lst, root_index, depth) ==
    IF depth > Len(node_lst) + 1 THEN Raise("RecursionError")
    ELSE LET root == Index(node_lst, root_index)
         IN  IF IsError(root) THEN root
             ELSE LET left == IF root.l_type = 0
                              THEN HuffmanNode(root.l_data, None, None)
                              ELSE IF root.l_type = 1
                              THEN general_rec(node_lst, root.l_data, depth + 1)
                              ELSE None
                  IN  IF IsError(left) THEN left
                      ELSE LET right ==
                                   IF root.r_type = 0
                                   THEN HuffmanNode(root.r_data, None, None)
                                   ELSE IF root.r_type = 1
                                   THEN general_rec(node_lst, root.r_data, depth + 1)
                                   ELSE None
                           IN  IF IsError(right) THEN right
                               ELSE HuffmanNode(NoSymbol, left, right)

generate_tree_general(node_lst, root_index) == general_rec(node_lst, root_index, 1)

RECURSIVE count_internal(_)
\* count_internal that does not count the nodes below n
count_internal_Shallow(n) ==
    IF n = None THEN 0
    ELSE IF ~is_leaf(n) THEN 1
    ELSE 0

count_internal(n) ==
    IF n = None THEN 0
    ELSE IF ~is_leaf(n) THEN 1 + count_internal(n.left) + count_internal(n.right)
    ELSE 0

RECURSIVE generate_tree_postorder(_, _)
generate_tree_postorder(node_lst, root_index) ==
    LET root == Index(node_lst, root_index)
    IN  IF IsError(root) THEN root
        ELSE LET right == IF root.r_type = 0
                          THEN HuffmanNode(root.r_data, None, None)
                          ELSE IF root.r_type = 1
                          THEN generate_tree_postorder(node_lst, root_index - 1)
                          ELSE None
             IN  IF IsError(right) THEN right
                 ELSE LET left ==
                              IF root.l_type = 0
                              THEN HuffmanNode(root.l_data, None, None)
                              ELSE IF root.l_type = 1
                              THEN generate_tree_postorder(
                                       node_lst,
                                       root_index - count_internal(right) - 1)
                              ELSE None
                      IN  IF IsError(left) THEN left
                          ELSE HuffmanNode(NoSymbol, left, right)

RECURSIVE ConcatBits(_)
ConcatBits(txt) ==
    IF txt = <<>> THEN <<>> ELSE byte_to_bits(txt[1]) \o ConcatBits(Tail(txt))

\* the loop "for num in s" from bit k on, with the walk at temp and l emitted
RECURSIVE decode_loop(_, _, _, _, _, _)
\* the loop without "if len(l) == size: return": every bit is decoded
decode_loop_NoStop(t, s, k, temp, l, n) ==
    IF k > Len(s) THEN l
    ELSE IF temp = None THEN decode_loop(t, s, k + 1, temp, l, n)
    ELSE LET next == IF s[k] = "0" THEN temp.left ELSE temp.right
         IN  IF next # None /\ is_leaf(next)
             THEN decode_loop(t, s, k + 1, t, Append(l, next.symbol), n)
             ELSE decode_loop(t, s, k + 1, next, l, n)

decode_loop(t, s, k, temp, l, n) ==
    IF k > Len(s) THEN l
    ELSE IF temp = None THEN decode_loop(t, s, k + 1, temp, l, n)
    ELSE LET next == IF s[k] = "0" THEN temp.left ELSE temp.right
         IN  IF next # None /\ is_leaf(next)
             THEN IF Len(l) + 1 = n THEN Append(l, next.symbol)
                  ELSE decode_loop(t, s, k + 1, t, Append(l, next.symbol), n)
             ELSE decode_loop(t, s, k + 1, next, l, n)

generate_uncompressed(t, txt, n) ==
    decode_loop(t, ConcatBits(txt), 1, t, <<>>, n)

bytes_to_nodes(buf) ==
    IF Len(buf) % 4 # 0 THEN Raise("IndexError")
    ELSE Ok([k \in 1..(Len(buf) \div 4) |->
                ReadNode(buf[4 * k - 3], buf[4 * k - 2], buf[4 * k - 1], buf[4 * k])])

\* int.from_bytes(buf, "little")
bytes_to_size(buf) ==
    SumSeq([k \in 1..Len(buf) |-> buf[k] * Pow2(8 * (k - 1))])

\* f.read(n) at offset pos of file f: at most n bytes, fewer at the end
Read(f, pos, n) ==
    SubSeq(f, pos + 1, IF pos + n < Len(f) THEN pos + n ELSE Len(f))

\* the bytes uncompress writes to out_file, or the exception it ends in
uncompress(f) ==
    IF Len(f) = 0 THEN Raise("IndexError")
    ELSE LET num_nodes == f[1]
             buf == Read(f, 1, num_nodes * 4)
             node_lst == bytes_to_nodes(buf)
         IN  IF IsError(node_lst) THEN node_lst
             ELSE LET t == generate_tree_general(node_lst.value, num_nodes - 1)
                  IN  IF IsError(t) THEN t
                      ELSE LET pos == 1 + Len(buf)
                               n == bytes_to_size(Read(f, pos, 4))
                               txt == Read(f, pos + 4, Len(f))
                           IN  Ok(generate_uncompressed(t, txt, n))

(***************************************************************************)
(* Other functions.                                                        *)
(***************************************************************************)
\* the node of t reached from the root by path, a sequence of "left"/"right"
RECURSIVE NodeAt(_, _)
NodeAt(t, path) ==
    IF path = <<>> THEN t
    ELSE NodeAt(IF Head(path) = "left" THEN t.left ELSE t.right, Tail(path))

\* next_tree.symbol = symbol, next_tree being the node of t at path
RECURSIVE SetSymbol(_, _, _)
SetSymbol(t, path, symbol) ==
    IF path = <<>> THEN [t EXCEPT !.symbol = symbol]
    ELSE IF Head(path) = "left"
    THEN [t EXCEPT !.left = SetSymbol(t.left, Tail(path), symbol)]
    ELSE [t EXCEPT !.right = SetSymbol(t.right, Tail(path), symbol)]

\* the level-order loop of improve_tree; lst_tree holds the queued nodes as
\* their paths in t
RECURSIVE improve_loop(_, _, _)
\* the loop reading the last tuple of freq_lst without removing it:
\* freq_lst[-1] in place of freq_lst.pop()
improve_loop_NoPop(t, lst_tree, freq_lst) ==
    IF Len(lst_tree) = 0 THEN t
    ELSE LET path == Head(lst_tree)
             next_tree == NodeAt(t, path)
             queued == Tail(lst_tree)
                 \o (IF next_tree.left # None THEN <<Append(path, "left")>> ELSE <<>>)
                 \o (IF next_tree.right # None THEN <<Append(path, "right")>> ELSE <<>>)
         IN  IF is_leaf(next_tree)
             THEN IF Len(freq_lst) = 0 THEN Raise("IndexError")
                  ELSE LET symbol == freq_lst[Len(freq_lst)]
                       IN  improve_loop(SetSymbol(t, path, symbol[2]), queued,
                                        freq_lst)
             ELSE improve_loop(t, queued, freq_lst)

improve_loop(t, lst_tree, freq_lst) ==
    IF Len(lst_tree) = 0 THEN t
    ELSE LET path == Head(lst_tree)
             next_tree == NodeAt(t, path)
             queued == Tail(lst_tree)
                 \o (IF next_tree.left # None THEN <<Append(path, "left")>> ELSE <<>>)
                 \o (IF next_tree.right # None THEN <<Append(path, "right")>> ELSE <<>>)
         IN  IF is_leaf(next_tree)
             THEN IF Len(freq_lst) = 0 THEN Raise("IndexError")
                  ELSE LET symbol == freq_lst[Len(freq_lst)]
                       IN  improve_loop(SetSymbol(t, path, symbol[2]), queued,
                                        SubSeq(freq_lst, 1, Len(freq_lst) - 1))
             ELSE improve_loop(t, queued, freq_lst)

\* improve_tree handing out the least frequent symbol first: freq_lst.pop(0)
improve_tree_PopFirst(t, freq_dict) ==
    LET freq_lst == SortTuples({<<freq_dict[key], key>> : key \in DOMAIN freq_dict})
    IN  improve_loop(t, <<<<>>>>, [i \in 1..Len(freq_lst) |->
                                      freq_lst[Len(freq_lst) + 1 - i]])

\* improve_tree changes the symbols of tree in place; here the changed tree
\* is returned
improve_tree(t, freq_dict) ==
    LET freq_lst == SortTuples({<<freq_dict[key], key>> : key \in DOMAIN freq_dict})
    IN  improve_loop(t, <<<<>>>>, freq_lst)

(***************************************************************************)
(* toah_model: Cheese, MoveSequence and TOAHModel.                         *)
(***************************************************************************)
Cheese(width) == [size |-> width]

\* lst[i] does not raise IndexError
HasIndex(lst, i) == -Len(lst) <= i /\ i < Len(lst)

\* where lst[i] is in the sequence lst: a negative i counts from the end
Position(lst, i) == (IF i < 0 THEN i + Len(lst) ELSE i) + 1

\* add_move recording the pair the other way round
add_move_Swapped(moves, src_stool, dest_stool) ==
    Append(moves, <<dest_stool, src_stool>>)

\* MoveSequence.add_move
add_move(moves, src_stool, dest_stool) == Append(moves, <<src_stool, dest_stool>>)

\* MoveSequence.length
length(moves) == Len(moves)

\* TOAHModel.__init__
TOAHModel(number_of_stools) ==
    [number_of_stools |-> number_of_stools,
     stools |-> [i \in 1..number_of_stools |-> <<>>],
     move_seq |-> <<>>]

get_number_of_cheeses(self) ==
    SumSeq([i \in 1..Len(self.stools) |-> Len(self.stools[i])])

\* add without the comparison with the top cheese
add_NoCompare(self, cheese, number) ==
    IF ~HasIndex(self.stools, number) THEN Raise("IndexError")
    ELSE LET p == Position(self.stools, number)
         IN  [self EXCEPT !.stools[p] = Append(@, cheese)]

add(self, cheese, number) ==
    IF ~HasIndex(self.stools, number) THEN Raise("IndexError")
    ELSE LET p == Position(self.stools, number)
             stool == self.stools[p]
         IN  IF Len(stool) # 0
             THEN IF cheese.size < stool[Len(stool)].size
                  THEN [self EXCEPT !.stools[p] = Append(stool, cheese)]
                  ELSE self
             ELSE [self EXCEPT !.stools[p] = Append(stool, cheese)]

\* self._stools[stool_index].append(self._stools[from_stool].pop()) and
\* self._move_seq.add_move(from_stool, stool_index)
MoveTop(self, from_stool, stool_index) ==
    LET f == Position(self.stools, from_stool)
        cheese == self.stools[f][Len(self.stools[f])]
        popped == [self.stools EXCEPT ![f] = SubSeq(@, 1, Len(@) - 1)]
        d == Position(popped, stool_index)
    IN  [self EXCEPT !.stools = [popped EXCEPT ![d] = Append(@, cheese)],
                     !.move_seq = add_move(@, from_stool, stool_index)]

\* move refusing a move as soon as one of the two stools is not in
\* 1..number_of_stools - 1
move_EitherOutOfRange(self, from_stool, stool_index) ==
    IF \/ ~(self.number_of_stools > from_stool /\ from_stool > 0)
       \/ ~(self.number_of_stools > stool_index /\ stool_index > 0)
    THEN Raise("IllegalMoveError")
    ELSE IF Len(self.stools[Position(self.stools, from_stool)]) = 0
    THEN Raise("IllegalMoveError")
    ELSE LET src == self.stools[Position(self.stools, from_stool)]
             dest == self.stools[Position(self.stools, stool_index)]
         IN  IF Len(dest) # 0
             THEN IF src[Len(src)].size < dest[Len(dest)].size
                  THEN MoveTop(self, from_stool, stool_index)
                  ELSE Raise("IllegalMoveError")
             ELSE MoveTop(self, from_stool, stool_index)

move(self, from_stool, stool_index) ==
    IF /\ ~(self.number_of_stools > from_stool /\ from_stool > 0)
       /\ ~(self.number_of_stools > stool_index /\ stool_index > 0)
    THEN Raise("IllegalMoveError")
    ELSE IF ~HasIndex(self.stools, from_stool) THEN Raise("IndexError")
    ELSE IF Len(self.stools[Position(self.stools, from_stool)]) = 0
    THEN Raise("IllegalMoveError")
    ELSE IF ~HasIndex(self.stools, stool_index) THEN Raise("IndexError")
    ELSE LET src == self.stools[Position(self.stools, from_stool)]
             dest == self.stools[Position(self.stools, stool_index)]
         IN  IF Len(dest) # 0
             THEN IF src[Len(src)].size < dest[Len(dest)].size
                  THEN MoveTop(self, from_stool, stool_index)
                  ELSE Raise("IllegalMoveError")
             ELSE MoveTop(self, from_stool, stool_index)

number_of_moves(self) == length(self.move_seq)

fill_first_stool(self, number_of_cheeses) ==
    [self EXCEPT !.stools[1] =
        @ \o [k \in 1..number_of_cheeses |-> Cheese(number_of_cheeses + 1 - k)]]

(***************************************************************************)
(* tour: the recursive solution for four stools.                           *)
(***************************************************************************)
\* the least element of the non-empty set S of integers
Min(S) == CHOOSE x \in S : \A y \in S : x <= y

\* min_steps(n) for n >= 1
RECURSIVE min_steps(_)
min_steps(n) ==
    IF n = 1 THEN 1
    ELSE Min({2 * min_steps(n - i) + Pow2(i) - 1 : i \in 1..(n - 1)})

\* y[a] = i keeps the last i of each a; min(y) of the empty dict raises
get_i(n) ==
    IF n <= 1 THEN Raise("ValueError")
    ELSE LET a == [i \in 1..(n - 1) |-> 2 * min_steps(n - i) + Pow2(i) - 1]
             least == Min({a[i] : i \in 1..(n - 1)})
         IN  Ok(CHOOSE i \in 1..(n - 1) :
                   /\ a[i] = least
                   /\ \A j \in 1..(n - 1) : a[j] = least => j <= i)

\* a call of move_four or move_three: its arguments n and lst, the value of
\* t, and how many of its statements are done
Frame(fn, n, lst) == [fn |-> fn, n |-> n, lst |-> lst, t |-> 0, at |-> 0]

\* the running call moves on to its next statement
Advance(stk) == [stk EXCEPT ![Len(stk)].at = @ + 1]

\* the running call calls fn(n, lst)
Call(stk, fn, n, lst) == Append(Advance(stk), Frame(fn, n, lst))

\* the running call returns
Return(stk) == SubSeq(stk, 1, Len(stk) - 1)

(***************************************************************************)
(* Inputs.                                                                 *)
(***************************************************************************)
SeqsUpTo(S, n) == UNION {[1..k -> S] : k \in 0..n}

\* file contents, the empty file included
Texts == SeqsUpTo(Alphabet, MaxText)

\* the non-empty frequency dictionaries: every count is positive
FreqDicts ==
    UNION {[D -> 1..MaxFreq] : D \in (SUBSET Alphabet) \ {{}}}

\* record lists as a damaged or foreign file may hold them
RecordTypes == {0, 1}

RecordData == {0, 2}

ReadNodes ==
    {ReadNode(lt, ld, rt, rd) :
        lt \in RecordTypes, ld \in RecordData, rt \in RecordTypes, rd \in RecordData}

\* the binary trees of height at most d whose leaves hold exactly the symbols
\* of S, one leaf each; an internal node has one or two children
RECURSIVE TreesOver(_, _)
TreesOver(S, d) ==
    (IF Cardinality(S) = 1
     THEN {HuffmanNode(s, None, None) : s \in S} ELSE {})
    \cup
    (IF d = 0 THEN {}
     ELSE {HuffmanNode(NoSymbol, l, None) : l \in TreesOver(S, d - 1)}
          \cup {HuffmanNode(NoSymbol, None, r) : r \in TreesOver(S, d - 1)}
          \cup UNION {{HuffmanNode(NoSymbol, l, r) :
                          l \in TreesOver(A, d - 1), r \in TreesOver(S \ A, d - 1)} :
                      A \in (SUBSET S) \ {{}, S}})

\* the height up to which the trees over S are enumerated: every tree whose
\* internal nodes all have two children is within it
TreeHeight(S) == IF Cardinality(S) = 1 THEN 1 ELSE Cardinality(S) - 1

(***************************************************************************)
(* compress and uncompress on a file.                                      *)
(***************************************************************************)
Init ==
    /\ pc = "start"
    /\ text \in Texts
    /\ freqs = <<>>
    /\ tree = None
    /\ data = <<>>
    /\ nodes = <<>>
    /\ rootix = 0
    /\ size = 0
    /\ result = None
    /\ toah = None
    /\ stack = <<>>

\* compress(in_file, out_file): out_file is written only when nothing raised
Compress ==
    /\ pc = "start"
    /\ LET out == compress(text)
       IN  IF IsError(out)
           THEN /\ pc' = "compress_raised"
                /\ result' = out
                /\ data' = data
           ELSE /\ pc' = "compressed"
                /\ data' = out.value
                /\ result' = result
    /\ UNCHANGED <<text, freqs, tree, nodes, rootix, size>>
    /\ UNCHANGED <<toah, stack>>

\* uncompress(in_file, out_file) on the file compress wrote
Uncompress ==
    /\ pc = "compressed"
    /\ LET out == uncompress(data)
       IN  /\ result' = out
           /\ pc' = IF IsError(out) THEN "uncompress_raised" ELSE "uncompressed"
    /\ UNCHANGED <<text, freqs, tree, data, nodes, rootix, size>>
    /\ UNCHANGED <<toah, stack>>

Next == Compress \/ Uncompress

Spec == Init /\ [][Next]_vars

(***************************************************************************)
(* uncompress on a file that ends early.                                   *)
(***************************************************************************)
\* the compressed file loses its end: in_file holds only a proper prefix
CutFile ==
    /\ pc = "compressed"
    /\ \E k \in 0..(Len(data) - 1) : data' = SubSeq(data, 1, k)
    /\ pc' = "cut"
    /\ UNCHANGED <<text, freqs, tree, nodes, rootix, size, result>>
    /\ UNCHANGED <<toah, stack>>

\* uncompress(in_file, out_file) on the shortened file
UncompressCut ==
    /\ pc = "cut"
    /\ LET out == uncompress(data)
       IN  /\ result' = out
           /\ pc' = IF IsError(out) THEN "cut_raised" ELSE "cut_uncompressed"
    /\ UNCHANGED <<text, freqs, tree, data, nodes, rootix, size>>
    /\ UNCHANGED <<toah, stack>>

NextCut == Compress \/ CutFile \/ UncompressCut

SpecCut == Init /\ [][NextCut]_vars

(***************************************************************************)
(* The tree: built, numbered, written as bytes and read back.              *)
(***************************************************************************)
InitTree ==
    /\ pc = "freq"
    /\ freqs \in FreqDicts
    /\ text = <<>>
    /\ tree = None
    /\ data = <<>>
    /\ nodes = <<>>
    /\ rootix = 0
    /\ size = 0
    /\ result = None
    /\ toah = None
    /\ stack = <<>>

BuildTree ==
    /\ pc = "freq"
    /\ tree' = huffman_tree(freqs)
    /\ pc' = "built"
    /\ UNCHANGED <<text, freqs, data, nodes, rootix, size, result>>
    /\ UNCHANGED <<toah, stack>>

NumberNodes ==
    /\ pc = "built"
    /\ tree' = number_nodes(tree)
    /\ pc' = "numbered"
    /\ UNCHANGED <<text, freqs, data, nodes, rootix, size, result>>
    /\ UNCHANGED <<toah, stack>>

TreeToBytes ==
    /\ pc = "numbered"
    /\ data' = tree_to_bytes(tree)
    /\ pc' = "serialized"
    /\ UNCHANGED <<text, freqs, tree, nodes, rootix, size, result>>
    /\ UNCHANGED <<toah, stack>>

\* bytes_to_nodes on the tree's bytes; the root is the last record
BytesToNodes ==
    /\ pc = "serialized"
    /\ LET lst == bytes_to_nodes(data)
       IN  IF IsError(lst)
           THEN /\ pc' = "nodes_raised"
                /\ result' = lst
                /\ UNCHANGED <<nodes, rootix>>
           ELSE /\ pc' = "nodes"
                /\ nodes' = lst.value
                /\ rootix' = Len(lst.value) - 1
                /\ result' = result
    /\ UNCHANGED <<text, freqs, tree, data, size>>
    /\ UNCHANGED <<toah, stack>>

GenerateTreeGeneral ==
    /\ pc = "nodes"
    /\ result' = generate_tree_general(nodes, rootix)
    /\ pc' = "general"
    /\ UNCHANGED <<text, freqs, tree, data, nodes, rootix, size>>
    /\ UNCHANGED <<toah, stack>>

GenerateTreePostorder ==
    /\ pc = "nodes"
    /\ result' = generate_tree_postorder(nodes, rootix)
    /\ pc' = "postorder"
    /\ UNCHANGED <<text, freqs, tree, data, nodes, rootix, size>>
    /\ UNCHANGED <<toah, stack>>

NextTree ==
    \/ BuildTree
    \/ NumberNodes
    \/ TreeToBytes
    \/ BytesToNodes
    \/ GenerateTreeGeneral
    \/ GenerateTreePostorder

SpecTree == InitTree /\ [][NextTree]_vars

\* the same steps on frequency dictionaries over one more symbol, whose
\* trees have up to four internal nodes
InitTreeWide ==
    /\ pc = "freq"
    /\ freqs \in UNION {[D -> 1..MaxFreq] : D \in (SUBSET WideAlphabet) \ {{}}}
    /\ text = <<>>
    /\ tree = None
    /\ data = <<>>
    /\ nodes = <<>>
    /\ rootix = 0
    /\ size = 0
    /\ result = None
    /\ toah = None
    /\ stack = <<>>

SpecTreeWide == InitTreeWide /\ [][NextTree]_vars

(***************************************************************************)
(* The tree generators on an arbitrary record list.                        *)
(***************************************************************************)
InitRecords ==
    /\ pc = "nodes"
    /\ nodes \in SeqsUpTo(ReadNodes, MaxNodes) \ {<<>>}
    /\ rootix \in 0..(Len(nodes) - 1)
    /\ text = <<>>
    /\ freqs = <<>>
    /\ tree = None
    /\ data = <<>>
    /\ size = 0
    /\ result = None
    /\ toah = None
    /\ stack = <<>>

NextRecords == GenerateTreeGeneral \/ GenerateTreePostorder

SpecRecords == InitRecords /\ [][NextRecords]_vars

(***************************************************************************)
(* Packing a symbol sequence and unpacking it with the tree.               *)
(***************************************************************************)
InitBits ==
    /\ pc = "symbols"
    /\ \E F \in FreqDicts :
          /\ tree = huffman_tree(F)
          /\ text \in SeqsUpTo(DOMAIN F, MaxSeq)
    /\ freqs = <<>>
    /\ data = <<>>
    /\ nodes = <<>>
    /\ rootix = 0
    /\ size = 0
    /\ result = None
    /\ toah = None
    /\ stack = <<>>

GenerateCompressed ==
    /\ pc = "symbols"
    /\ data' = generate_compressed(text, get_codes(tree)).value
    /\ pc' = "packed"
    /\ UNCHANGED <<text, freqs, tree, nodes, rootix, size, result>>
    /\ UNCHANGED <<toah, stack>>

\* the packed bytes lose their last byte before they are unpacked
Truncate ==
    /\ pc = "packed"
    /\ data # <<>>
    /\ data' = SubSeq(data, 1, Len(data) - 1)
    /\ pc' = "truncated"
    /\ UNCHANGED <<text, freqs, tree, nodes, rootix, size, result>>
    /\ UNCHANGED <<toah, stack>>

\* one of the packed bytes has every bit inverted before they are unpacked
Damage ==
    /\ pc = "packed"
    /\ \E i \in 1..Len(data) : data' = [data EXCEPT ![i] = 255 - @]
    /\ pc' = "damaged"
    /\ UNCHANGED <<text, freqs, tree, nodes, rootix, size, result>>
    /\ UNCHANGED <<toah, stack>>

\* the caller asks for no symbol, for as many as were packed, or for one more
GenerateUncompressed ==
    /\ pc \in {"packed", "truncated", "damaged"}
    /\ \E n \in {0, Len(text), Len(text) + 1} :
          /\ size' = n
          /\ result' = Ok(generate_uncompressed(tree, data, n))
    /\ pc' = "unpacked"
    /\ UNCHANGED <<text, freqs, tree, data, nodes, rootix>>
    /\ UNCHANGED <<toah, stack>>

NextBits == GenerateCompressed \/ Truncate \/ Damage \/ GenerateUncompressed

SpecBits == InitBits /\ [][NextBits]_vars

(***************************************************************************)
(* improve_tree on a tree and a frequency dictionary for its symbols.      *)
(***************************************************************************)
\* every internal node of t has two children
RECURSIVE IsFull(_)
IsFull(t) ==
    \/ is_leaf(t)
    \/ /\ t.left # None
       /\ t.right # None
       /\ IsFull(t.left)
       /\ IsFull(t.right)

\* the trees handed to improve_tree: over the whole alphabet those whose
\* internal nodes have two children, over fewer symbols also the trees with
\* one-child nodes; a lone leaf is a tree
ImproveTrees(S) ==
    {t \in TreesOver(S, TreeHeight(S)) :
        Cardinality(S) < Cardinality(Alphabet) \/ IsFull(t)}

InitImprove ==
    /\ pc = "tree"
    /\ \E S \in (SUBSET Alphabet) \ {{}} :
          /\ tree \in ImproveTrees(S)
          /\ freqs \in [S -> 1..MaxFreq]
    /\ text = <<>>
    /\ data = <<>>
    /\ nodes = <<>>
    /\ rootix = 0
    /\ size = 0
    /\ result = None
    /\ toah = None
    /\ stack = <<>>

\* improve_tree(tree, freq_dict): result is the tree after the call, tree
\* keeps the tree as it was before
ImproveTree ==
    /\ pc = "tree"
    /\ result' = improve_tree(tree, freqs)
    /\ pc' = "improved"
    /\ UNCHANGED <<text, freqs, tree, data, nodes, rootix, size>>
    /\ UNCHANGED <<toah, stack>>

NextImprove == ImproveTree

SpecImprove == InitImprove /\ [][NextImprove]_vars

(***************************************************************************)
(* A game: a model is created, its first stool is filled, and then         *)
(* cheeses are moved and added.                                            *)
(***************************************************************************)
\* the stool indices given to move and add: every stool, one index below
\* zero and one past the last stool
StoolIndices(self) == (-1)..self.number_of_stools

InitGame ==
    /\ pc = "created"
    /\ \E number_of_stools \in StoolCounts : toah = TOAHModel(number_of_stools)
    /\ text = <<>>
    /\ freqs = <<>>
    /\ tree = None
    /\ data = <<>>
    /\ nodes = <<>>
    /\ rootix = 0
    /\ size = 0
    /\ result = None
    /\ stack = <<>>

FillFirstStool ==
    /\ pc = "created"
    /\ \E number_of_cheeses \in 0..MaxCheeses :
          toah' = fill_first_stool(toah, number_of_cheeses)
    /\ pc' = "filled"
    /\ UNCHANGED <<text, freqs, tree, data, nodes, rootix, size, result, stack>>

\* model.move(from_stool, stool_index); result is the exception it raised
Move ==
    /\ pc = "filled"
    /\ number_of_moves(toah) < MaxMoves
    /\ \E from_stool \in StoolIndices(toah), stool_index \in StoolIndices(toah) :
          LET out == move(toah, from_stool, stool_index)
          IN  IF IsError(out)
              THEN /\ result' = out
                   /\ toah' = toah
              ELSE /\ result' = None
                   /\ toah' = out
    /\ UNCHANGED <<pc, text, freqs, tree, data, nodes, rootix, size, stack>>

\* model.add(cheese, number); result is the exception it raised
Add ==
    /\ pc = "filled"
    /\ get_number_of_cheeses(toah) < MaxCheeses
    /\ \E width \in 1..MaxCheeses, number \in StoolIndices(toah) :
          LET out == add(toah, Cheese(width), number)
          IN  IF IsError(out)
              THEN /\ result' = out
                   /\ toah' = toah
              ELSE /\ result' = None
                   /\ toah' = out
    /\ UNCHANGED <<pc, text, freqs, tree, data, nodes, rootix, size, stack>>

NextGame == FillFirstStool \/ Move \/ Add

SpecGame == InitGame /\ [][NextGame]_vars

(***************************************************************************)
(* tour_of_four_stools on a model of four stools whose first stool is      *)
(* filled. animate is False.                                               *)
(***************************************************************************)
InitTour ==
    /\ pc = "tour_start"
    /\ \E number_of_cheeses \in 0..MaxTour :
          toah = fill_first_stool(TOAHModel(FourStools), number_of_cheeses)
    /\ text = <<>>
    /\ freqs = <<>>
    /\ tree = None
    /\ data = <<>>
    /\ nodes = <<>>
    /\ rootix = 0
    /\ size = 0
    /\ result = None
    /\ stack = <<>>

TourOfFourStools ==
    /\ pc = "tour_start"
    /\ LET q == get_number_of_cheeses(toah)
       IN  stack' = <<Frame("move_four", q, <<0, 1, 2, 3>>)>>
    /\ pc' = "touring"
    /\ UNCHANGED <<text, freqs, tree, data, nodes, rootix, size, result, toah>>

\* an exception leaves every call that has not returned
Raised(e) ==
    /\ result' = e
    /\ stack' = <<>>
    /\ pc' = "tour_raised"
    /\ toah' = toah

\* the running call goes on with stack stk; the tour is over when the first
\* call has returned
Continue(stk) ==
    /\ stack' = stk
    /\ pc' = IF stk = <<>> THEN "toured" ELSE "touring"
    /\ result' = result

\* the next statement of the running call of move_four(n, lst, model)
MoveFour ==
    /\ pc = "touring"
    /\ stack[Len(stack)].fn = "move_four"
    /\ LET call == stack[Len(stack)]
           n == call.n
           lst == call.lst
       IN  IF n = 1
           THEN LET out == move(toah, lst[1], lst[4])
                IN  IF IsError(out) THEN Raised(out)
                    ELSE toah' = out /\ Continue(Return(stack))
           ELSE IF call.at = 0
           THEN LET t == get_i(n)
                IN  IF IsError(t) THEN Raised(t)
                    ELSE /\ Continue(Call([stack EXCEPT ![Len(stack)].t = t.value],
                                          "move_four", n - t.value,
                                          <<lst[1], lst[4], lst[3], lst[2]>>))
                         /\ toah' = toah
           ELSE IF call.at = 1
           THEN /\ Continue(Call(stack, "move_three", call.t,
                                 <<lst[1], lst[4], lst[3]>>))
                /\ toah' = toah
           ELSE IF call.at = 2
           THEN /\ Continue(Call(stack, "move_four", n - call.t,
                                 <<lst[2], lst[1], lst[3], lst[4]>>))
                /\ toah' = toah
           ELSE toah' = toah /\ Continue(Return(stack))
    /\ UNCHANGED <<text, freqs, tree, data, nodes, rootix, size>>

\* the next statement of the running call of move_three(n, lst, model)
MoveThree ==
    /\ pc = "touring"
    /\ stack[Len(stack)].fn = "move_three"
    /\ LET call == stack[Len(stack)]
           n == call.n
           lst == call.lst
       IN  IF ~(n > 0) THEN toah' = toah /\ Continue(Return(stack))
           ELSE IF call.at = 0
           THEN /\ Continue(Call(stack, "move_three", n - 1,
                                 <<lst[1], lst[3], lst[2]>>))
                /\ toah' = toah
           ELSE IF call.at = 1
           THEN LET out == move(toah, lst[1], lst[2])
                IN  IF IsError(out) THEN Raised(out)
                    ELSE toah' = out /\ Continue(Advance(stack))
           ELSE IF call.at = 2
           THEN /\ Continue(Call(stack, "move_three", n - 1,
                                 <<lst[3], lst[2], lst[1]>>))
                /\ toah' = toah
           ELSE toah' = toah /\ Continue(Return(stack))
    /\ UNCHANGED <<text, freqs, tree, data, nodes, rootix, size>>

NextTour == TourOfFourStools \/ MoveFour \/ MoveThree

\* the interpreter runs the next statement as long as there is one
SpecTour == InitTour /\ [][NextTour]_vars /\ WF_vars(NextTour)

(***************************************************************************)
(* Notions the properties are stated with.                                 *)
(***************************************************************************)
IsPrefix(c, d) == Len(c) <= Len(d) /\ SubSeq(d, 1, Len(c)) = c

\* the number of bits the codes of the symbols of txt take together
TotalBits(txt, codes) == SumSeq([k \in 1..Len(txt) |-> Len(codes[txt[k]])])

\* sum over the symbols s of F[s] * length of the code of s in tree t
WeightedLength(t, F) == avg_length(t, F).total

\* the prefix trees over S: every symbol has a code of at least one bit
PrefixTrees(S) == {t \in TreesOver(S, TreeHeight(S)) : ~is_leaf(t)}

\* the length of each symbol's code in tree t
CodeLengths(t) == [s \in DOMAIN get_codes(t) |-> Len(get_codes(t)[s])]

\* the code lengths of every prefix tree over every non-empty set of symbols
AllCodeLengths ==
    UNION {{CodeLengths(t) : t \in PrefixTrees(S)} : S \in (SUBSET Alphabet) \ {{}}}

\* the code lengths of every prefix tree over the symbols of S
PrefixCodeLengths(S) == {lengths \in AllCodeLengths : DOMAIN lengths = S}

(***************************************************************************)
(* C2: for every non-empty frequency dictionary, no code of                *)
(* get_codes(huffman_tree(F)) is a prefix of the code of another symbol.   *)
(***************************************************************************)
C2_PrefixFree ==
    pc = "built" =>
        LET codes == get_codes(tree)
        IN  \A a \in DOMAIN codes : \A b \in DOMAIN codes :
                a # b => ~IsPrefix(codes[a], codes[b])

\* a tree over all four symbols whose codes have different lengths
C2_Witness ==
    /\ pc = "built"
    /\ DOMAIN get_codes(tree) = Alphabet
    /\ \E a \in Alphabet : \E b \in Alphabet :
          Len(get_codes(tree)[a]) < Len(get_codes(tree)[b])

(***************************************************************************)
(* C3: the frequency-weighted total code length of huffman_tree(F) is at   *)
(* most that of every prefix tree over the symbols of F.                   *)
(***************************************************************************)
C3_Optimal ==
    pc = "built" =>
        \A lengths \in PrefixCodeLengths(DOMAIN freqs) :
            WeightedLength(tree, freqs)
                <= SumOver(DOMAIN freqs, [s \in DOMAIN freqs |-> freqs[s] * lengths[s]])

\* four symbols with unequal counts, and some prefix tree that is strictly worse
C3_Witness ==
    /\ pc = "built"
    /\ DOMAIN freqs = Alphabet
    /\ \E a \in Alphabet : \E b \in Alphabet : freqs[a] < freqs[b]
    /\ \E lengths \in PrefixCodeLengths(DOMAIN freqs) :
          WeightedLength(tree, freqs)
              < SumOver(DOMAIN freqs, [s \in DOMAIN freqs |-> freqs[s] * lengths[s]])

(***************************************************************************)
(* C1: for every non-empty byte sequence, the single-symbol ones included, *)
(* compress and then uncompress of what compress wrote yields the          *)
(* sequence, byte for byte.                                                *)
(***************************************************************************)
C1_RoundTrip ==
    (text # <<>> /\ pc \in {"compress_raised", "uncompress_raised", "uncompressed"})
        => result = Ok(text)

(***************************************************************************)
(* C4: for every tree huffman_tree returns, numbered by number_nodes,      *)
(* bytes_to_nodes(tree_to_bytes(T)) is read back by both                   *)
(* generate_tree_general and generate_tree_postorder, from the last        *)
(* record, as a tree of the same shape with the same symbol at every leaf. *)
(***************************************************************************)
C4_SerializationRoundTrip ==
    /\ pc # "nodes_raised"
    /\ pc \in {"general", "postorder"} => (~IsError(result) /\ NodeEq(result, tree))

(***************************************************************************)
(* C5: for every non-empty text the bytes compress writes are: byte 0 = N, *)
(* the number of internal nodes, 1 <= N <= 255; then N records of 4 bytes  *)
(* (left_type, left_value, right_type, right_value) in postorder; then     *)
(* len(text) as 4 little-endian bytes; then the packed bitstream.          *)
(***************************************************************************)
\* the internal nodes of tree t
RECURSIVE InternalNodes(_)
InternalNodes(t) ==
    IF t = None \/ is_leaf(t) THEN {}
    ELSE InternalNodes(t.left) \cup InternalNodes(t.right) \cup {t}

\* (type, value) of a child in a record
ChildField(c) == IF is_leaf(c) THEN <<0, c.symbol>> ELSE <<1, c.number>>

\* bytes 4k+1 .. 4k+4 of the file (byte 0 first) describe the internal node
\* numbered k
RecordAt(file, node) ==
    LET at == 4 * node.number + 1
    IN  /\ node.left # None =>
              <<file[at + 1], file[at + 2]>> = ChildField(node.left)
        /\ node.right # None =>
              <<file[at + 3], file[at + 4]>> = ChildField(node.right)

LittleEndian4(n) == [k \in 1..4 |-> (n \div Pow2(8 * (k - 1))) % 256]

C5_FileLayout ==
    (pc = "compressed" /\ text # <<>>) =>
        LET built == number_nodes(huffman_tree(make_freq_dict(text)))
            N == count_internal(built)
        IN  /\ data[1] = N
            /\ 1 <= N /\ N <= 255
            /\ Len(data) >= 4 * N + 5
            /\ \A node \in InternalNodes(built) : RecordAt(data, node)
            /\ SubSeq(data, 4 * N + 2, 4 * N + 5) = LittleEndian4(Len(text))
            /\ Ok(SubSeq(data, 4 * N + 6, Len(data)))
                   = generate_compressed(text, get_codes(built))

(***************************************************************************)
(* C6: for every tree built by huffman_tree and every symbol sequence S    *)
(* over its symbols whose codes take a number of bits that is no multiple  *)
(* of 8, generate_uncompressed(T, generate_compressed(S, codes), len(S))   *)
(* returns exactly S: no symbol is decoded from the pad bits.              *)
(***************************************************************************)
C6_PaddingSafety ==
    (/\ pc = "unpacked"
     /\ Ok(data) = generate_compressed(text, get_codes(tree))
     /\ size = Len(text)
     /\ TotalBits(text, get_codes(tree)) % 8 # 0)
        => result = Ok(text)

\* more than one byte is packed, the last one partly pad bits
C6_Witness ==
    /\ pc = "unpacked"
    /\ Ok(data) = generate_compressed(text, get_codes(tree))
    /\ size = Len(text)
    /\ TotalBits(text, get_codes(tree)) > 8
    /\ TotalBits(text, get_codes(tree)) % 8 # 0
    /\ Len(data) = 2
    /\ result = Ok(text)

(***************************************************************************)
(* C7: for a frequency dictionary with one entry {s: c}, huffman_tree      *)
(* returns an internal root without a symbol that has exactly one child,   *)
(* a leaf holding s, and get_codes gives s a code of at least one bit.     *)
(***************************************************************************)
C7_SingleSymbol ==
    (pc = "built" /\ Cardinality(DOMAIN freqs) = 1) =>
        \E s \in DOMAIN freqs :
            /\ ~IsError(tree)
            /\ tree.symbol = NoSymbol
            /\ (tree.left = None) # (tree.right = None)
            /\ LET child == IF tree.left # None THEN tree.left ELSE tree.right
               IN  is_leaf(child) /\ child.symbol = s
            /\ DOMAIN get_codes(tree) = {s}
            /\ Len(get_codes(tree)[s]) >= 1

C7_Witness ==
    /\ pc = "built"
    /\ freqs = [s \in {255} |-> MaxFreq]
    /\ tree = HuffmanNode(NoSymbol, HuffmanNode(255, None, None), None)
    /\ get_codes(tree) = [s \in {255} |-> <<"0">>]

(***************************************************************************)
(* C8: compress on a zero-byte input does not raise and writes the header  *)
(* alone (node count 0, size 0, no payload), and uncompress of that output *)
(* produces zero bytes.                                                    *)
(***************************************************************************)
C8_EmptyInput ==
    text = <<>> =>
        /\ pc # "compress_raised"
        /\ pc # "uncompress_raised"
        /\ pc = "compressed" => data = <<0, 0, 0, 0, 0>>
        /\ pc = "uncompressed" => result = Ok(<<>>)

(***************************************************************************)
(* C9: generate_uncompressed(tree, text, size) never returns fewer than    *)
(* size symbols: when the bits decode to fewer it ends in an error.        *)
(***************************************************************************)
C9_TruncatedBitstream ==
    (pc = "unpacked" /\ ~IsError(result)) => Len(result.value) >= size

(***************************************************************************)
(* C10: generate_tree_general and generate_tree_postorder end in an error, *)
(* and return no tree, when an internal-child reference resolves to an     *)
(* index outside 0..len(node_lst)-1 (for the postorder variant a computed  *)
(* index below 0 included).                                                *)
(***************************************************************************)
InRange(lst, i) == 0 <= i /\ i < Len(lst)

\* the in-range indices generate_tree_general can reach from those in R
RECURSIVE GeneralReach(_, _)
GeneralReach(lst, R) ==
    LET more == {lst[j + 1].l_data : j \in {i \in R : lst[i + 1].l_type = 1}}
                \cup {lst[j + 1].r_data : j \in {i \in R : lst[i + 1].r_type = 1}}
        R2 == R \cup {i \in more : InRange(lst, i)}
    IN  IF R2 = R THEN R ELSE GeneralReach(lst, R2)

GeneralOutOfRange(lst, i) ==
    \E j \in GeneralReach(lst, {i}) :
        \/ lst[j + 1].l_type = 1 /\ ~InRange(lst, lst[j + 1].l_data)
        \/ lst[j + 1].r_type = 1 /\ ~InRange(lst, lst[j + 1].r_data)

\* the indices generate_tree_postorder computes, root_index included
RECURSIVE PostorderIndices(_, _)
PostorderIndices(lst, i) ==
    LET rec == Index(lst, i)
    IN  IF IsError(rec) THEN {i}
        ELSE LET right == IF rec.r_type = 1
                          THEN generate_tree_postorder(lst, i - 1)
                          ELSE None
                 R == IF rec.r_type = 1 THEN PostorderIndices(lst, i - 1) ELSE {}
             IN  IF IsError(right) \/ rec.l_type # 1 THEN {i} \cup R
                 ELSE {i} \cup R
                      \cup PostorderIndices(lst, i - count_internal(right) - 1)

PostorderOutOfRange(lst, i) ==
    \E j \in PostorderIndices(lst, i) : ~InRange(lst, j)

C10_CorruptStructure ==
    /\ (pc = "general" /\ GeneralOutOfRange(nodes, rootix)) => IsError(result)
    /\ (pc = "postorder" /\ PostorderOutOfRange(nodes, rootix)) => IsError(result)

(***************************************************************************)
(* C11: uncompress of a buffer whose first byte is N and whose length is   *)
(* less than 1 + 4N + 4 ends in an exception and writes no decoded output. *)
(***************************************************************************)
C11_ShortBuffer ==
    (/\ pc \in {"cut_raised", "cut_uncompressed"}
     /\ Len(data) >= 1
     /\ Len(data) < 1 + 4 * data[1] + 4)
        => IsError(result)

(***************************************************************************)
(* C12: for every tree T and frequency dictionary F whose keys are the     *)
(* leaf symbols of T, the frequency-weighted total code length of T under  *)
(* F after improve_tree(T, F) is at most what it was before the call.      *)
(***************************************************************************)
C12_ImproveNoWorse ==
    pc = "improved" =>
        /\ ~IsError(result)
        /\ WeightedLength(result, freqs) <= WeightedLength(tree, freqs)

\* a call that made the total strictly smaller
C12_Witness ==
    /\ pc = "improved"
    /\ ~IsError(result)
    /\ WeightedLength(result, freqs) < WeightedLength(tree, freqs)

(***************************************************************************)
(* C13: for every tree with N >= 1 internal nodes, number_nodes gives the  *)
(* internal nodes the distinct numbers 0..N-1 in postorder (a node's       *)
(* number is greater than every number in its subtrees, the left subtree   *)
(* is numbered before the right one), the root gets N-1,                   *)
(* number_internal(tree, 0) returns N, and the root's record is the last   *)
(* 4-byte record tree_to_bytes emits.                                      *)
(***************************************************************************)
\* the last four bytes of buf describe the children of node
LastRecord(buf, node) ==
    /\ Len(buf) >= 4
    /\ node.left # None =>
          <<buf[Len(buf) - 3], buf[Len(buf) - 2]>> = ChildField(node.left)
    /\ node.right # None =>
          <<buf[Len(buf) - 1], buf[Len(buf)]>> = ChildField(node.right)

C13_PostorderNumbering ==
    pc = "serialized" =>
        LET internals == InternalNodes(tree)
            N == Cardinality(internals)
        IN  /\ N >= 1
            /\ {node.number : node \in internals} = 0..(N - 1)
            /\ \A node \in internals :
                  /\ \A below \in InternalNodes(node) \ {node} :
                        below.number < node.number
                  /\ \A l \in InternalNodes(node.left) :
                        \A r \in InternalNodes(node.right) : l.number < r.number
            /\ tree.number = N - 1
            /\ number_internal(huffman_tree(freqs), 0).n = N
            /\ LastRecord(data, tree)

(***************************************************************************)
(* C14: in a model created empty, filled once with fill_first_stool(n) and *)
(* then given any sequence of move and add calls, whether they succeed or  *)
(* raise, every stool holds cheeses of strictly decreasing size from       *)
(* bottom to top.                                                          *)
(***************************************************************************)
StrictlyDecreasing(stool) ==
    \A i \in 1..(Len(stool) - 1) : stool[i].size > stool[i + 1].size

C14_StoolsOrdered ==
    pc = "filled" =>
        \A i \in 1..Len(toah.stools) : StrictlyDecreasing(toah.stools[i])

\* a cheese was moved onto a larger one that was added before, and the
\* last call raised
C14_Witness ==
    /\ pc = "filled"
    /\ number_of_moves(toah) >= 1
    /\ \E i \in 2..Len(toah.stools) : Len(toah.stools[i]) >= 2
    /\ result = Raise("IllegalMoveError")

(***************************************************************************)
(* C15: on a model of four stools with n >= 1 cheeses on stool 0 and the   *)
(* other stools empty, tour_of_four_stools terminates, no move raises, and *)
(* at the end stool 3 holds all n cheeses, sizes n down to 1 from bottom   *)
(* to top, and stools 0, 1 and 2 are empty.                                *)
(***************************************************************************)
\* all the cheeses of self are on its last stool, the largest at the bottom
TowerOnLastStool(self) ==
    LET n == get_number_of_cheeses(self)
    IN  self.stools = [i \in 1..self.number_of_stools |->
                          IF i = self.number_of_stools
                          THEN [k \in 1..n |-> Cheese(n + 1 - k)]
                          ELSE <<>>]

C15_TourCompletes ==
    /\ [](get_number_of_cheeses(toah) >= 1 => pc # "tour_raised")
    /\ []((get_number_of_cheeses(toah) >= 1 /\ pc = "toured")
             => TowerOnLastStool(toah))
    /\ (get_number_of_cheeses(toah) >= 1) ~> (pc = "toured")

\* the tour of the largest tower has ended
C15_Witness ==
    /\ pc = "toured"
    /\ get_number_of_cheeses(toah) >= MaxTour
    /\ TowerOnLastStool(toah)
    /\ number_of_moves(toah) > MaxTour

(***************************************************************************)
(* C16: for every tree T huffman_tree builds from two or more symbols, on  *)
(* the postorder record list of T and the index of its last record         *)
(* generate_tree_postorder returns the same tree as generate_tree_general, *)
(* and get_codes of either tree is get_codes(T).                           *)
(***************************************************************************)
C16_PostorderAgrees ==
    (pc = "postorder" /\ Cardinality(DOMAIN freqs) >= 2) =>
        LET general == generate_tree_general(nodes, rootix)
        IN  /\ ~IsError(result)
            /\ ~IsError(general)
            /\ result = general
            /\ get_codes(result) = get_codes(tree)
            /\ get_codes(general) = get_codes(tree)

\* a tree whose root has two internal children, the right one with an
\* internal child of its own, was read back: the left child's record is
\* two records before the right child's
C16_Witness ==
    /\ pc = "postorder"
    /\ ~IsError(result)
    /\ result = generate_tree_general(nodes, rootix)
    /\ ~is_leaf(result.left)
    /\ count_internal(result.right) >= 2
    /\ get_codes(result) = get_codes(tree)

(***************************************************************************)
(* C17: for every decoding tree, packed text and size >= 0, size = 0       *)
(* included, generate_uncompressed(tree, text, size) never returns more    *)
(* than size symbols: the bits after the size-th symbol are discarded.     *)
(***************************************************************************)
C17_StopsAtSize ==
    pc = "unpacked" => Len(result.value) <= size

(***************************************************************************)
(* C18: when the walk of generate_uncompressed steps from a node to an     *)
(* absent (None) child before it has reached a leaf, as bit 1 does on the  *)
(* single-symbol tree whose root has only a left child, the call ends in   *)
(* a decode error and returns no shortened symbol sequence.                *)
(***************************************************************************)
\* the walk over the bits s[k..] from node temp, with count symbols emitted
\* so far, steps to an absent child before n symbols are emitted
RECURSIVE StepsToAbsentChild(_, _, _, _, _, _)
StepsToAbsentChild(t, s, k, temp, count, n) ==
    IF k > Len(s) THEN FALSE
    ELSE LET next == IF s[k] = "0" THEN temp.left ELSE temp.right
         IN  IF next = None THEN TRUE
             ELSE IF is_leaf(next)
             THEN count + 1 # n /\ StepsToAbsentChild(t, s, k + 1, t, count + 1, n)
             ELSE StepsToAbsentChild(t, s, k + 1, next, count, n)

C18_AbsentChild ==
    (/\ pc = "unpacked"
     /\ StepsToAbsentChild(tree, ConcatBits(data), 1, tree, 0, size))
        => IsError(result)

(***************************************************************************)
(* C19: for every text and code table covering its symbols, with L the     *)
(* sum of the code lengths of the symbols of text, generate_compressed     *)
(* returns exactly ceil(L/8) bytes whose bits, most significant bit first, *)
(* are the codes in input order followed only by "0" pad bits: fewer than  *)
(* 8 pad bits, none when L is a multiple of 8, no byte for an empty text.  *)
(***************************************************************************)
C19_PackedLength ==
    pc = "packed" =>
        LET codes == get_codes(tree)
            L == TotalBits(text, codes)
            bits == ConcatBits(data)
        IN  /\ Len(data) = (L + 7) \div 8
            /\ Len(bits) >= L
            /\ SubSeq(bits, 1, L) = ConcatCodes(text, codes)
            /\ \A k \in (L + 1)..Len(bits) : bits[k] = "0"
            /\ Len(bits) - L < 8
            /\ (L % 8 = 0 => Len(bits) = L)
            /\ (text = <<>> => data = <<>>)

(***************************************************************************)
(* C20: for every tree T and frequency dictionary F whose keys are the     *)
(* leaf symbols of T, improve_tree(T, F) leaves the shape of T as it was   *)
(* (the same internal nodes, the same leaf positions, the same code        *)
(* lengths) and the set of leaf symbols as it was: only the assignment of  *)
(* symbols to leaves changes.                                              *)
(***************************************************************************)
\* tree t with the symbol of every leaf blanked
RECURSIVE Shape(_)
Shape(t) ==
    IF t = None THEN None
    ELSE IF is_leaf(t) THEN [t EXCEPT !.symbol = NoSymbol]
    ELSE [t EXCEPT !.left = Shape(t.left), !.right = Shape(t.right)]

\* the depths of the leaves of t below a node of depth d, left to right
RECURSIVE LeafDepths(_, _)
LeafDepths(t, d) ==
    IF t = None THEN <<>>
    ELSE IF is_leaf(t) THEN <<d>>
    ELSE LeafDepths(t.left, d + 1) \o LeafDepths(t.right, d + 1)

C20_ShapeKept ==
    pc = "improved" =>
        /\ ~IsError(result)
        /\ Shape(result) = Shape(tree)
        /\ LeafDepths(result, 0) = LeafDepths(tree, 0)
        /\ Range(get_leaf(result)) = Range(get_leaf(tree))
        /\ Len(get_leaf(result)) = Cardinality(Range(get_leaf(result)))

\* a call that gave three or more leaves another symbol
C20_Witness ==
    /\ pc = "improved"
    /\ ~IsError(result)
    /\ Shape(result) = Shape(tree)
    /\ Range(get_leaf(result)) = Range(get_leaf(tree))
    /\ Cardinality({k \in 1..Len(get_leaf(tree)) :
                       get_leaf(tree)[k] # get_leaf(result)[k]}) >= 3

(***************************************************************************)
(* C21: move(from_stool, stool_index) with either index outside            *)
(* 0..number_of_stools-1, a negative index and the case of only one index  *)
(* out of range included, raises IllegalMoveError and leaves every stool   *)
(* and the move sequence as they were.                                     *)
(***************************************************************************)
\* i is one of the stool numbers 0..number_of_stools-1 of self
IsStool(self, i) == 0 <= i /\ i < self.number_of_stools

C21_OutOfRangeRefused ==
    pc = "filled" =>
        \A from_stool \in StoolIndices(toah), stool_index \in StoolIndices(toah) :
            (~IsStool(toah, from_stool) \/ ~IsStool(toah, stool_index))
                => move(toah, from_stool, stool_index) = Raise("IllegalMoveError")

(***************************************************************************)
(* C22: after any sequence of move calls on a filled model,                *)
(* number_of_moves() is the number of move calls that returned without     *)
(* raising and get_move_seq() lists exactly their (from, to) pairs in call *)
(* order; a move call that raises leaves every stool and the move sequence *)
(* as they were, and a successful move keeps the total number of cheeses.  *)
(***************************************************************************)
\* the step is a call move(from_stool, stool_index) that either raised and
\* changed nothing, or returned and put its pair at the end of the sequence
MoveRecorded ==
    \E from_stool \in StoolIndices(toah), stool_index \in StoolIndices(toah) :
        LET out == move(toah, from_stool, stool_index)
        IN  IF IsError(out)
            THEN /\ result' = out
                 /\ toah'.stools = toah.stools
                 /\ toah'.move_seq = toah.move_seq
                 /\ number_of_moves(toah') = number_of_moves(toah)
            ELSE /\ toah' = out
                 /\ toah'.move_seq = Append(toah.move_seq, <<from_stool, stool_index>>)
                 /\ number_of_moves(toah') = number_of_moves(toah) + 1
                 /\ get_number_of_cheeses(toah') = get_number_of_cheeses(toah)

C22_MovesRecorded ==
    /\ [](pc = "created" => number_of_moves(toah) = 0)
    /\ [][FillFirstStool => number_of_moves(toah') = 0]_vars
    /\ [][Move => MoveRecorded]_vars

\* one move returned, recorded as (0, 1), and a later one raised
C22_Witness ==
    /\ pc = "filled"
    /\ toah.move_seq = <<<<0, 1>>>>
    /\ number_of_moves(toah) = 1
    /\ result = Raise("IllegalMoveError")
    /\ get_number_of_cheeses(toah) = MaxCheeses

====
